---- MODULE Spec2Model ----
(* Best-Fit fixed-partition memory simulator (BestFitSimulatorInC++.cpp).   *)
(* The state is the three global vectors, main's locals and the text the   *)
(* most recent command printed.  Partition indices are 1-based here; the   *)
(* code's "bestIndex == -1" (nothing found) is index 0.                    *)
EXTENDS Integers, Sequences, FiniteSets, TLC

\* ---------------------------------------------------------------- bounds
MaxParts == 2      \* largest partition count typed at "Enter number of partitions"
MaxSize == 2       \* largest partition size typed
MaxJobSize == 2    \* largest job size typed
MaxJobs == 3       \* job numbers issued before the model stops adding jobs

\* ------------------------------------------------------------- constants
INT_MAX == 2147483647

VARIABLES
    pc,               \* position of main: "readN", "readSize", "menu", "jobsize", "done"
    n,                \* main: int n
    i,                \* main: loop index of the partition set-up loop (0-based)
    memory,           \* vector<Partition> memory
    waitingQueue,     \* vector<Job> waitingQueue
    deallocatedJobs,  \* vector<Job> deallocatedJobs
    jobCounter,       \* main: int jobCounter
    j,                \* main: Job j of the "Add Job" branch
    jobNumber,        \* main: int jobNumber of the "Deallocate Job" branch
                      \* (both are block locals: they keep their value until the
                      \* next command is read and are NoJob / NoNumber outside)
    out               \* messages printed by the most recent step, in order

vars == <<pc, n, i, memory, waitingQueue, deallocatedJobs, jobCounter, j,
          jobNumber, out>>

\* A printed message: its kind, the job number and the partition id in it.
Msg(kind, job, part) == [kind |-> kind, job |-> job, part |-> part]

\* struct Partition, as pushed by main: {i + 1, s, true, -1, 0, 0}
Partition(id, s) ==
    [id |-> id, size |-> s, isFree |-> TRUE, jobNumber |-> -1, jobSize |-> 0,
     internalFragment |-> 0]

\* struct Job
Job(num, size) == [jobNumber |-> num, jobSize |-> size]

\* The block locals of main while their branch is not running.
NoJob == Job(0, 0)
NoNumber == 0

\* ------------------------------------------------------------ allocateJob
\* allocateJob_scan taking the first partition that fits (first fit).
RECURSIVE allocateJob_scan_firstFit(_, _, _, _, _)
allocateJob_scan_firstFit(mem, jobSize, k, bestIndex, smallestFit) ==
    IF k > Len(mem) THEN bestIndex
    ELSE IF mem[k].isFree /\ mem[k].size >= jobSize /\ bestIndex = 0
         THEN allocateJob_scan_firstFit(mem, jobSize, k + 1, k, mem[k].size - jobSize)
         ELSE allocateJob_scan_firstFit(mem, jobSize, k + 1, bestIndex, smallestFit)

\* allocateJob_scan with "leftover <= smallestFit": the last of a tie wins.
RECURSIVE allocateJob_scan_lastTie(_, _, _, _, _)
allocateJob_scan_lastTie(mem, jobSize, k, bestIndex, smallestFit) ==
    IF k > Len(mem) THEN bestIndex
    ELSE IF mem[k].isFree /\ mem[k].size >= jobSize
            /\ mem[k].size - jobSize <= smallestFit
         THEN allocateJob_scan_lastTie(mem, jobSize, k + 1, k, mem[k].size - jobSize)
         ELSE allocateJob_scan_lastTie(mem, jobSize, k + 1, bestIndex, smallestFit)

\* allocateJob_scan without the isFree test.
RECURSIVE allocateJob_scan_ignoreFree(_, _, _, _, _)
allocateJob_scan_ignoreFree(mem, jobSize, k, bestIndex, smallestFit) ==
    IF k > Len(mem) THEN bestIndex
    ELSE IF mem[k].size >= jobSize /\ mem[k].size - jobSize < smallestFit
         THEN allocateJob_scan_ignoreFree(mem, jobSize, k + 1, k, mem[k].size - jobSize)
         ELSE allocateJob_scan_ignoreFree(mem, jobSize, k + 1, bestIndex, smallestFit)

\* allocateJob_scan with "size > jobSize": an exact fit is refused.
RECURSIVE allocateJob_scan_strict(_, _, _, _, _)
allocateJob_scan_strict(mem, jobSize, k, bestIndex, smallestFit) ==
    IF k > Len(mem) THEN bestIndex
    ELSE IF mem[k].isFree /\ mem[k].size > jobSize
            /\ mem[k].size - jobSize < smallestFit
         THEN allocateJob_scan_strict(mem, jobSize, k + 1, k, mem[k].size - jobSize)
         ELSE allocateJob_scan_strict(mem, jobSize, k + 1, bestIndex, smallestFit)

\* The search loop of allocateJob: k is the partition being looked at,
\* bestIndex / smallestFit the loop's running values.
RECURSIVE allocateJob_scan(_, _, _, _, _)
allocateJob_scan(mem, jobSize, k, bestIndex, smallestFit) ==
    IF k > Len(mem) THEN bestIndex
    ELSE IF mem[k].isFree /\ mem[k].size >= jobSize
            /\ mem[k].size - jobSize < smallestFit
         THEN allocateJob_scan(mem, jobSize, k + 1, k, mem[k].size - jobSize)
         ELSE allocateJob_scan(mem, jobSize, k + 1, bestIndex, smallestFit)

\* The four assignments that put a job into partition b.
Occupy(mem, b, job) ==
    [mem EXCEPT ![b] = [@ EXCEPT !.isFree = FALSE,
                                 !.jobNumber = job.jobNumber,
                                 !.jobSize = job.jobSize,
                                 !.internalFragment = mem[b].size - job.jobSize]]

allocateJob(mem, wq, job) ==
    LET bestIndex == allocateJob_scan(mem, job.jobSize, 1, 0, INT_MAX)
    IN  IF bestIndex = 0
        THEN [memory |-> mem,
              waitingQueue |-> Append(wq, job),
              out |-> <<Msg("queued", job.jobNumber, 0)>>]
        ELSE [memory |-> Occupy(mem, bestIndex, job),
              waitingQueue |-> wq,
              out |-> <<Msg("allocated", job.jobNumber, mem[bestIndex].id)>>]

\* ----------------------------------------------------- tryAllocateWaiting
\* tryAllocateWaiting_scan with "size > jobSize": an exact fit is refused.
RECURSIVE tryAllocateWaiting_scan_strict(_, _, _, _, _)
tryAllocateWaiting_scan_strict(mem, jobSize, k, bestIndex, small) ==
    IF k > Len(mem) THEN bestIndex
    ELSE IF mem[k].isFree /\ mem[k].size > jobSize
            /\ mem[k].size - jobSize < small
         THEN tryAllocateWaiting_scan_strict(mem, jobSize, k + 1, k,
                                             mem[k].size - jobSize)
         ELSE tryAllocateWaiting_scan_strict(mem, jobSize, k + 1, bestIndex, small)

\* The inner search loop of tryAllocateWaiting (its own copy of the scan).
RECURSIVE tryAllocateWaiting_scan(_, _, _, _, _)
tryAllocateWaiting_scan(mem, jobSize, k, bestIndex, small) ==
    IF k > Len(mem) THEN bestIndex
    ELSE IF mem[k].isFree /\ mem[k].size >= jobSize
            /\ mem[k].size - jobSize < small
         THEN tryAllocateWaiting_scan(mem, jobSize, k + 1, k, mem[k].size - jobSize)
         ELSE tryAllocateWaiting_scan(mem, jobSize, k + 1, bestIndex, small)

\* tryAllocateWaiting_loop without the "else": a placed job is kept as well.
RECURSIVE tryAllocateWaiting_loop_keepPlaced(_, _, _, _, _)
tryAllocateWaiting_loop_keepPlaced(mem, wq, q, remaining, msgs) ==
    IF q > Len(wq)
    THEN [memory |-> mem, waitingQueue |-> remaining, out |-> msgs]
    ELSE LET bestIndex == tryAllocateWaiting_scan(mem, wq[q].jobSize, 1, 0, INT_MAX)
         IN  IF bestIndex # 0
             THEN tryAllocateWaiting_loop_keepPlaced(
                      Occupy(mem, bestIndex, wq[q]), wq, q + 1,
                      Append(remaining, wq[q]),
                      Append(msgs, Msg("waitingAllocated", wq[q].jobNumber,
                                       mem[bestIndex].id)))
             ELSE tryAllocateWaiting_loop_keepPlaced(mem, wq, q + 1,
                                                     Append(remaining, wq[q]), msgs)

\* tryAllocateWaiting_loop inserting a job that stays at the front of remaining.
RECURSIVE tryAllocateWaiting_loop_prepend(_, _, _, _, _)
tryAllocateWaiting_loop_prepend(mem, wq, q, remaining, msgs) ==
    IF q > Len(wq)
    THEN [memory |-> mem, waitingQueue |-> remaining, out |-> msgs]
    ELSE LET bestIndex == tryAllocateWaiting_scan(mem, wq[q].jobSize, 1, 0, INT_MAX)
         IN  IF bestIndex # 0
             THEN tryAllocateWaiting_loop_prepend(
                      Occupy(mem, bestIndex, wq[q]), wq, q + 1, remaining,
                      Append(msgs, Msg("waitingAllocated", wq[q].jobNumber,
                                       mem[bestIndex].id)))
             ELSE tryAllocateWaiting_loop_prepend(mem, wq, q + 1,
                                                  <<wq[q]>> \o remaining, msgs)

\* tryAllocateWaiting_loop leaving the loop at the first job that does not
\* fit: that job and all jobs behind it stay in the queue.
RECURSIVE tryAllocateWaiting_loop_stopAtFail(_, _, _, _, _)
tryAllocateWaiting_loop_stopAtFail(mem, wq, q, remaining, msgs) ==
    IF q > Len(wq)
    THEN [memory |-> mem, waitingQueue |-> remaining, out |-> msgs]
    ELSE LET bestIndex == tryAllocateWaiting_scan(mem, wq[q].jobSize, 1, 0, INT_MAX)
         IN  IF bestIndex # 0
             THEN tryAllocateWaiting_loop_stopAtFail(
                      Occupy(mem, bestIndex, wq[q]), wq, q + 1, remaining,
                      Append(msgs, Msg("waitingAllocated", wq[q].jobNumber,
                                       mem[bestIndex].id)))
             ELSE [memory |-> mem,
                   waitingQueue |-> remaining \o SubSeq(wq, q, Len(wq)),
                   out |-> msgs]

\* tryAllocateWaiting_loop that forgets the jobs it could not place.
RECURSIVE tryAllocateWaiting_loop_dropRemaining(_, _, _, _, _)
tryAllocateWaiting_loop_dropRemaining(mem, wq, q, remaining, msgs) ==
    IF q > Len(wq)
    THEN [memory |-> mem, waitingQueue |-> <<>>, out |-> msgs]
    ELSE LET bestIndex == tryAllocateWaiting_scan(mem, wq[q].jobSize, 1, 0, INT_MAX)
         IN  IF bestIndex # 0
             THEN tryAllocateWaiting_loop_dropRemaining(
                      Occupy(mem, bestIndex, wq[q]), wq, q + 1, remaining,
                      Append(msgs, Msg("waitingAllocated", wq[q].jobNumber,
                                       mem[bestIndex].id)))
             ELSE tryAllocateWaiting_loop_dropRemaining(mem, wq, q + 1,
                                                        remaining, msgs)

\* The outer loop over the waiting jobs: q is the position in the queue,
\* remaining the jobs kept so far, msgs the messages printed so far.
RECURSIVE tryAllocateWaiting_loop(_, _, _, _, _)
tryAllocateWaiting_loop(mem, wq, q, remaining, msgs) ==
    IF q > Len(wq)
    THEN [memory |-> mem, waitingQueue |-> remaining, out |-> msgs]
    ELSE LET bestIndex == tryAllocateWaiting_scan(mem, wq[q].jobSize, 1, 0, INT_MAX)
         IN  IF bestIndex # 0
             THEN tryAllocateWaiting_loop(
                      Occupy(mem, bestIndex, wq[q]), wq, q + 1, remaining,
                      Append(msgs, Msg("waitingAllocated", wq[q].jobNumber,
                                       mem[bestIndex].id)))
             ELSE tryAllocateWaiting_loop(mem, wq, q + 1,
                                          Append(remaining, wq[q]), msgs)

tryAllocateWaiting(mem, wq) ==
    IF wq = <<>>
    THEN [memory |-> mem, waitingQueue |-> wq, out |-> <<>>]
    ELSE tryAllocateWaiting_loop(mem, wq, 1, <<>>, <<>>)

\* ---------------------------------------------------------- deallocateJob
\* deallocateJob_find without the "!p.isFree" test.
RECURSIVE deallocateJob_find_anyPartition(_, _, _)
deallocateJob_find_anyPartition(mem, num, k) ==
    IF k > Len(mem) THEN 0
    ELSE IF mem[k].jobNumber = num THEN k
         ELSE deallocateJob_find_anyPartition(mem, num, k + 1)

\* The partition the search loop of deallocateJob stops at (0: none).
RECURSIVE deallocateJob_find(_, _, _)
deallocateJob_find(mem, num, k) ==
    IF k > Len(mem) THEN 0
    ELSE IF ~mem[k].isFree /\ mem[k].jobNumber = num THEN k
         ELSE deallocateJob_find(mem, num, k + 1)

\* Reset without "p.internalFragment = 0".
Reset_keepFragment(mem, p) ==
    [mem EXCEPT ![p] = [@ EXCEPT !.isFree = TRUE, !.jobNumber = -1,
                                 !.jobSize = 0]]

\* The reset of a partition to the free state.
Reset(mem, p) ==
    [mem EXCEPT ![p] = [@ EXCEPT !.isFree = TRUE, !.jobNumber = -1,
                                 !.jobSize = 0, !.internalFragment = 0]]

\* deallocateJob recording the history entry after the sweep, from the
\* partition as the sweep left it.
deallocateJob_appendAfterSweep(mem, wq, hist, num) ==
    LET p == deallocateJob_find(mem, num, 1)
    IN  IF p = 0
        THEN [memory |-> mem, waitingQueue |-> wq, deallocatedJobs |-> hist,
              out |-> <<Msg("notFound", 0, 0)>>]
        ELSE LET sweep == tryAllocateWaiting(Reset(mem, p), wq)
             IN  [memory |-> sweep.memory,
                  waitingQueue |-> sweep.waitingQueue,
                  deallocatedJobs |->
                      Append(hist, Job(sweep.memory[p].jobNumber,
                                       sweep.memory[p].jobSize)),
                  out |-> <<Msg("deallocated", num, mem[p].id)>> \o sweep.out]

\* deallocateJob pushing the released job onto waitingQueue instead of
\* deallocatedJobs.
deallocateJob_requeue(mem, wq, hist, num) ==
    LET p == deallocateJob_find(mem, num, 1)
    IN  IF p = 0
        THEN [memory |-> mem, waitingQueue |-> wq, deallocatedJobs |-> hist,
              out |-> <<Msg("notFound", 0, 0)>>]
        ELSE LET sweep == tryAllocateWaiting(
                              Reset(mem, p),
                              Append(wq, Job(mem[p].jobNumber, mem[p].jobSize)))
             IN  [memory |-> sweep.memory,
                  waitingQueue |-> sweep.waitingQueue,
                  deallocatedJobs |-> hist,
                  out |-> <<Msg("deallocated", num, mem[p].id)>> \o sweep.out]

deallocateJob(mem, wq, hist, num) ==
    LET p == deallocateJob_find(mem, num, 1)
    IN  IF p = 0
        THEN [memory |-> mem, waitingQueue |-> wq, deallocatedJobs |-> hist,
              out |-> <<Msg("notFound", 0, 0)>>]
        ELSE LET sweep == tryAllocateWaiting(Reset(mem, p), wq)
             IN  [memory |-> sweep.memory,
                  waitingQueue |-> sweep.waitingQueue,
                  deallocatedJobs |->
                      Append(hist, Job(mem[p].jobNumber, mem[p].jobSize)),
                  out |-> <<Msg("deallocated", num, mem[p].id)>> \o sweep.out]

\* ------------------------------------------------------------- showStatus
\* showStatus_totals with "usedCount++" outside the "if (!p.isFree)".
RECURSIVE showStatus_totals_countAll(_, _, _, _)
showStatus_totals_countAll(mem, k, totalIF, usedCount) ==
    IF k > Len(mem) THEN [totalIF |-> totalIF, usedCount |-> usedCount]
    ELSE IF ~mem[k].isFree
         THEN showStatus_totals_countAll(mem, k + 1,
                                         totalIF + mem[k].internalFragment,
                                         usedCount + 1)
         ELSE showStatus_totals_countAll(mem, k + 1, totalIF, usedCount + 1)

\* totalIF and usedCount as the table loop accumulates them.
RECURSIVE showStatus_totals(_, _, _, _)
showStatus_totals(mem, k, totalIF, usedCount) ==
    IF k > Len(mem) THEN [totalIF |-> totalIF, usedCount |-> usedCount]
    ELSE IF ~mem[k].isFree
         THEN showStatus_totals(mem, k + 1, totalIF + mem[k].internalFragment,
                                usedCount + 1)
         ELSE showStatus_totals(mem, k + 1, totalIF, usedCount)

\* avgInternal, a double, as the exact fraction num / den:
\* (usedCount == 0 ? 0 : (double)totalIF / usedCount)
showStatus_avgInternal(totalIF, usedCount) ==
    IF usedCount = 0 THEN [num |-> 0, den |-> 1]
    ELSE [num |-> totalIF, den |-> usedCount]

\* The sum the utilization loop accumulates, as the exact fraction num / den:
\* utilization += ((double)p.jobSize / p.size) * 100 for every used partition.
RECURSIVE showStatus_utilSum(_, _, _, _)
showStatus_utilSum(mem, k, num, den) ==
    IF k > Len(mem) THEN [num |-> num, den |-> den]
    ELSE IF ~mem[k].isFree
         THEN showStatus_utilSum(mem, k + 1,
                                 num * mem[k].size + mem[k].jobSize * 100 * den,
                                 den * mem[k].size)
         ELSE showStatus_utilSum(mem, k + 1, num, den)

\* utilization /= memory.size(): with no partition this is 0.0 / 0, a NaN.
showStatus_utilization(mem) ==
    LET u == showStatus_utilSum(mem, 1, 0, 1)
    IN  IF Len(mem) = 0 THEN [nan |-> TRUE, num |-> 0, den |-> 0]
        ELSE [nan |-> FALSE, num |-> u.num, den |-> u.den * Len(mem)]

\* What showStatus prints: the rows of the table, the total, the two lists,
\* the average internal fragmentation and the utilization.
showStatus(mem, wq, hist) ==
    LET t == showStatus_totals(mem, 1, 0, 0)
    IN  [kind |-> "status",
         totalIF |-> t.totalIF,
         usedCount |-> t.usedCount,
         avgInternal |-> showStatus_avgInternal(t.totalIF, t.usedCount),
         utilization |-> showStatus_utilization(mem),
         rows |-> [k \in 1..Len(mem) |->
                      [id |-> mem[k].id, size |-> mem[k].size,
                       isFree |-> mem[k].isFree,
                       jobNumber |-> IF mem[k].isFree THEN -1 ELSE mem[k].jobNumber,
                       jobSize |-> IF mem[k].isFree THEN -1 ELSE mem[k].jobSize,
                       fragment |-> IF mem[k].isFree THEN 0
                                    ELSE mem[k].internalFragment]],
         waiting |-> wq,
         deallocated |-> [k \in 1..Len(hist) |-> hist[k].jobNumber]]

\* ------------------------------------------------------------------- main
Init ==
    /\ pc = "readN"
    /\ n = 0
    /\ i = 0
    /\ memory = <<>>
    /\ waitingQueue = <<>>
    /\ deallocatedJobs = <<>>
    /\ jobCounter = 1
    /\ j = NoJob
    /\ jobNumber = NoNumber
    /\ out = <<>>

\* cin >> n
ReadN ==
    /\ pc = "readN"
    /\ \E v \in 0..MaxParts :
          /\ n' = v
          /\ pc' = IF 0 < v THEN "readSize" ELSE "menu"
    /\ out' = <<>>
    /\ UNCHANGED <<i, memory, waitingQueue, deallocatedJobs, jobCounter, j, jobNumber>>

\* One pass of the do-while that reads a partition size.
ReadSize ==
    /\ pc = "readSize"
    /\ \E s \in 0..MaxSize :
          IF s <= 0
          THEN /\ out' = <<Msg("invalidSize", 0, 0)>>
               /\ UNCHANGED <<pc, i, memory>>
          ELSE /\ memory' = Append(memory, Partition(i + 1, s))
               /\ i' = i + 1
               /\ pc' = IF i + 1 < n THEN "readSize" ELSE "menu"
               /\ out' = <<>>
    /\ UNCHANGED <<n, waitingQueue, deallocatedJobs, jobCounter, j, jobNumber>>

\* ChooseAddJob with "j.jobNumber = jobCounter" and no increment.
ChooseAddJob_noIncrement ==
    /\ pc = "menu"
    /\ jobCounter <= MaxJobs
    /\ j' = [NoJob EXCEPT !.jobNumber = jobCounter]
    /\ jobCounter' = jobCounter
    /\ jobNumber' = NoNumber
    /\ pc' = "jobsize"
    /\ out' = <<>>
    /\ UNCHANGED <<n, i, memory, waitingQueue, deallocatedJobs>>

\* choice == 1: j.jobNumber = jobCounter++
ChooseAddJob ==
    /\ pc = "menu"
    /\ jobCounter <= MaxJobs
    /\ j' = [NoJob EXCEPT !.jobNumber = jobCounter]
    /\ jobCounter' = jobCounter + 1
    /\ jobNumber' = NoNumber
    /\ pc' = "jobsize"
    /\ out' = <<>>
    /\ UNCHANGED <<n, i, memory, waitingQueue, deallocatedJobs>>

\* ReadJobSize with the loop condition "j.jobSize < 0": a size of 0 is
\* reported invalid and then allocated all the same.
ReadJobSize_acceptZero ==
    /\ pc = "jobsize"
    /\ \E s \in 0..MaxJobSize :
          LET r == allocateJob(memory, waitingQueue, [j EXCEPT !.jobSize = s])
          IN  /\ j' = [j EXCEPT !.jobSize = s]
              /\ memory' = r.memory
              /\ waitingQueue' = r.waitingQueue
              /\ out' = IF s <= 0 THEN <<Msg("invalidSize", 0, 0)>> \o r.out ELSE r.out
              /\ pc' = "menu"
    /\ UNCHANGED <<n, i, deallocatedJobs, jobCounter, jobNumber>>

\* One pass of the do-while that reads the job size, then allocateJob(j).
ReadJobSize ==
    /\ pc = "jobsize"
    /\ \E s \in 0..MaxJobSize :
          IF s <= 0
          THEN /\ j' = [j EXCEPT !.jobSize = s]
               /\ out' = <<Msg("invalidSize", 0, 0)>>
               /\ UNCHANGED <<pc, memory, waitingQueue>>
          ELSE LET r == allocateJob(memory, waitingQueue, [j EXCEPT !.jobSize = s])
               IN  /\ j' = [j EXCEPT !.jobSize = s]
                   /\ memory' = r.memory
                   /\ waitingQueue' = r.waitingQueue
                   /\ out' = r.out
                   /\ pc' = "menu"
    /\ UNCHANGED <<n, i, deallocatedJobs, jobCounter, jobNumber>>

\* choice == 2: cin >> jobNumber; deallocateJob(jobNumber).  The numbers typed
\* are -1 (what a free partition carries), every number issued so far and
\* the next one, not yet issued.
ChooseDeallocate ==
    /\ pc = "menu"
    /\ \E v \in {-1} \cup (1..jobCounter) :
          LET r == deallocateJob(memory, waitingQueue, deallocatedJobs, v)
          IN  /\ jobNumber' = v
              /\ memory' = r.memory
              /\ waitingQueue' = r.waitingQueue
              /\ deallocatedJobs' = r.deallocatedJobs
              /\ out' = r.out
    /\ j' = NoJob
    /\ UNCHANGED <<pc, n, i, jobCounter>>

\* ChooseShowStatus emptying deallocatedJobs once it has listed them.
ChooseShowStatus_clearHistory ==
    /\ pc = "menu"
    /\ out' = <<showStatus(memory, waitingQueue, deallocatedJobs)>>
    /\ deallocatedJobs' = <<>>
    /\ j' = NoJob
    /\ jobNumber' = NoNumber
    /\ UNCHANGED <<pc, n, i, memory, waitingQueue, jobCounter>>

\* choice == 3: showStatus()
ChooseShowStatus ==
    /\ pc = "menu"
    /\ out' = <<showStatus(memory, waitingQueue, deallocatedJobs)>>
    /\ j' = NoJob
    /\ jobNumber' = NoNumber
    /\ UNCHANGED <<pc, n, i, memory, waitingQueue, deallocatedJobs, jobCounter>>

\* choice == 4: the menu loop ends
ChooseExit ==
    /\ pc = "menu"
    /\ pc' = "done"
    /\ out' = <<>>
    /\ j' = NoJob
    /\ jobNumber' = NoNumber
    /\ UNCHANGED <<n, i, memory, waitingQueue, deallocatedJobs, jobCounter>>

\* any other choice: no branch is taken, the menu is shown again
ChooseOther ==
    /\ pc = "menu"
    /\ out' = <<>>
    /\ j' = NoJob
    /\ jobNumber' = NoNumber
    /\ UNCHANGED <<pc, n, i, memory, waitingQueue, deallocatedJobs, jobCounter>>

Next ==
    \/ ReadN
    \/ ReadSize
    \/ ChooseAddJob
    \/ ReadJobSize
    \/ ChooseDeallocate
    \/ ChooseShowStatus
    \/ ChooseExit
    \/ ChooseOther

Spec == Init /\ [][Next]_vars

\* ================================================================ helpers
\* Indices of the free partitions of mem large enough for a request of s.
FitSet(mem, s) == {k \in 1..Len(mem) : mem[k].isFree /\ mem[k].size >= s}

\* Among FitSet, those whose leftover is minimal.
MinLeftover(mem, s) ==
    {b \in FitSet(mem, s) :
        \A c \in FitSet(mem, s) : mem[b].size - s <= mem[c].size - s}

\* Indices of the partitions of mem occupied by job number num.
Holders(mem, num) == {k \in 1..Len(mem) : ~mem[k].isFree /\ mem[k].jobNumber = num}

\* Positions of job number num in a sequence of jobs.
Places(seq, num) == {q \in 1..Len(seq) : seq[q].jobNumber = num}

Placed(num) == \E k \in 1..Len(memory) : ~memory[k].isFree /\ memory[k].jobNumber = num
Waiting(num) == \E q \in 1..Len(waitingQueue) : waitingQueue[q].jobNumber = num
Released(num) == \E q \in 1..Len(deallocatedJobs) : deallocatedJobs[q].jobNumber = num

\* The step in which allocateJob(j) runs: a valid size was read.
SubmitStep == pc = "jobsize" /\ pc' = "menu"

\* The step in which deallocateJob(jobNumber) runs.
ReleaseStep ==
    /\ pc = "menu"
    /\ out' # <<>>
    /\ out'[1].kind \in {"notFound", "deallocated"}

\* Job job occupies a partition of mem.
InMemory(mem, job) ==
    \E k \in 1..Len(mem) :
        /\ ~mem[k].isFree
        /\ mem[k].jobNumber = job.jobNumber
        /\ mem[k].jobSize = job.jobSize

\* The jobs of seq that occupy no partition of mem, in the order of seq.
RECURSIVE Survivors(_, _)
Survivors(seq, mem) ==
    IF seq = <<>> THEN <<>>
    ELSE IF InMemory(mem, Head(seq)) THEN Survivors(Tail(seq), mem)
         ELSE <<Head(seq)>> \o Survivors(Tail(seq), mem)

\* ===================================================================== C1
\* C1: when a job is submitted and some free partition is large enough, the
\* job goes into a free, large-enough partition whose leftover is minimal;
\* every other partition, and the queue, stay as they were.
C1_BestFitPlacement ==
    [][(SubmitStep /\ FitSet(memory, j'.jobSize) # {}) =>
          /\ waitingQueue' = waitingQueue
          /\ Len(memory') = Len(memory)
          /\ \E b \in MinLeftover(memory, j'.jobSize) :
                /\ ~memory'[b].isFree
                /\ memory'[b].jobNumber = j'.jobNumber
                /\ memory'[b].jobSize = j'.jobSize
                /\ memory'[b].size = memory[b].size
                /\ \A k \in 1..Len(memory) : k # b => memory'[k] = memory[k]]_vars

\* A job was just placed while a larger free partition with a lower id exists.
C1_Witness ==
    /\ pc = "menu"
    /\ out # <<>> /\ out[1].kind = "allocated"
    /\ \E b \in Holders(memory, j.jobNumber) :
          \E k \in 1..Len(memory) :
              k < b /\ memory[k].isFree /\ memory[k].size > memory[b].size

\* ===================================================================== C2
\* Free partitions at the t-th message of a release's output: those free
\* before the release, plus the one released, minus those the sweep has
\* already filled.
FreeAt(t) ==
    ({k \in 1..Len(memory) : memory[k].isFree} \cup {out'[1].part})
        \ {out'[u].part : u \in 2..(t - 1)}

\* Lowest-id minimal-leftover choice among the partition set F for size s.
LowestBest(F, s) ==
    {b \in F : /\ memory[b].size >= s
               /\ \A c \in F : memory[c].size >= s =>
                     \/ memory[b].size < memory[c].size
                     \/ (memory[b].size = memory[c].size /\ b <= c)}

\* C2: among the free partitions that tie for the minimal leftover the one
\* with the lowest id is taken, by a submit and by every placement of a
\* retry sweep.
C2_TieLowestId ==
    /\ [][(SubmitStep /\ FitSet(memory, j'.jobSize) # {}) =>
             \A b \in Holders(memory', j'.jobNumber) :
                 /\ b \in MinLeftover(memory, j'.jobSize)
                 /\ \A c \in MinLeftover(memory, j'.jobSize) : b <= c]_vars
    /\ [][(ReleaseStep /\ out'[1].kind = "deallocated") =>
             \A t \in 2..Len(out') :
                 \E q \in Places(waitingQueue, out'[t].job) :
                     out'[t].part \in LowestBest(FreeAt(t), waitingQueue[q].jobSize)]_vars

\* A job was just placed in a partition while a free partition of the same
\* size with a higher id exists.
C2_Witness ==
    /\ pc = "menu"
    /\ out # <<>> /\ out[1].kind = "allocated"
    /\ \E b \in Holders(memory, j.jobNumber) :
          \E k \in 1..Len(memory) :
              k > b /\ memory[k].isFree /\ memory[k].size = memory[b].size

\* ===================================================================== C3
\* C3: a job number occupies at most one partition, is at most once in the
\* waiting queue, and is never in two of: a partition, the queue, the history.
C3_OnePlace ==
    \A num \in 1..jobCounter :
        /\ Cardinality(Holders(memory, num)) <= 1
        /\ Cardinality(Places(waitingQueue, num)) <= 1
        /\ ~(Placed(num) /\ Waiting(num))
        /\ ~(Placed(num) /\ Released(num))
        /\ ~(Waiting(num) /\ Released(num))

\* A release whose sweep placed a waiting job, with jobs in all three places.
C3_Witness ==
    /\ Len(out) >= 2 /\ out[2].kind = "waitingAllocated"
    /\ Placed(out[2].job)
    /\ waitingQueue # <<>>
    /\ Released(out[1].job)

\* ===================================================================== C4
\* C4: internalFragment >= 0 in every partition; a free partition has
\* internalFragment 0, jobSize 0, jobNumber -1; an occupied one has
\* internalFragment = size - jobSize and jobSize <= size.
C4_Fragment ==
    \A k \in 1..Len(memory) :
        /\ memory[k].internalFragment >= 0
        /\ memory[k].isFree =>
              /\ memory[k].internalFragment = 0
              /\ memory[k].jobSize = 0
              /\ memory[k].jobNumber = -1
        /\ ~memory[k].isFree =>
              /\ memory[k].internalFragment = memory[k].size - memory[k].jobSize
              /\ memory[k].jobSize <= memory[k].size

\* A partition that held a job with a positive fragment was just released and
\* is free, while another partition is occupied with a positive fragment.
C4_Witness ==
    /\ out # <<>> /\ out[1].kind = "deallocated"
    /\ memory[out[1].part].isFree
    /\ deallocatedJobs[Len(deallocatedJobs)].jobSize < memory[out[1].part].size
    /\ \E k \in 1..Len(memory) : ~memory[k].isFree /\ memory[k].internalFragment > 0

\* ===================================================================== C5
\* C5: releasing a number no partition holds reports not-found and changes
\* no partition, nor the queue, nor the history.
C5_NotFoundFrame ==
    [][(ReleaseStep /\ Holders(memory, jobNumber') = {}) =>
          /\ out' = <<Msg("notFound", 0, 0)>>
          /\ UNCHANGED <<memory, waitingQueue, deallocatedJobs>>]_vars

\* Not-found was reported for the number of a job that is waiting, with
\* another job released before and a free partition present.
C5_Witness ==
    /\ out = <<Msg("notFound", 0, 0)>>
    /\ Waiting(jobNumber)
    /\ deallocatedJobs # <<>>
    /\ \E k \in 1..Len(memory) : memory[k].isFree

\* ===================================================================== C6
\* C6: a release of a held job appends exactly that job (number and size) to
\* the history; every other step leaves the history as it is.
C6_HistoryAppend ==
    [][IF ReleaseStep /\ Holders(memory, jobNumber') # {}
       THEN \E p \in Holders(memory, jobNumber') :
                deallocatedJobs' =
                    Append(deallocatedJobs, Job(jobNumber', memory[p].jobSize))
       ELSE deallocatedJobs' = deallocatedJobs]_vars

\* A second release, whose sweep refilled the released partition.
C6_Witness ==
    /\ Len(deallocatedJobs) >= 2
    /\ Len(out) >= 2 /\ out[1].kind = "deallocated"
    /\ deallocatedJobs[Len(deallocatedJobs)].jobNumber = out[1].job
    /\ out[2].part = out[1].part

\* ===================================================================== C7
\* C7: after the sweep of a release the queue is the old queue without the
\* jobs that now occupy a partition, in the old order.
C7_SweepKeepsOrder ==
    [][(ReleaseStep /\ out'[1].kind = "deallocated") =>
          /\ waitingQueue' = Survivors(waitingQueue, memory')
          /\ \A q \in 1..Len(waitingQueue) :
                Places(waitingQueue', waitingQueue[q].jobNumber) = {}
                    => InMemory(memory', waitingQueue[q])]_vars

\* A sweep placed a job queued behind a job that is still waiting.
C7_Witness ==
    /\ Len(out) >= 2 /\ out[1].kind = "deallocated"
    /\ \E q \in 1..Len(waitingQueue) : waitingQueue[q].jobNumber < out[2].job

\* ===================================================================== C8
\* C8: a submit for which no free partition is large enough appends the job
\* to the queue and changes no partition and no history entry.
C8_EnqueueFrame ==
    [][(SubmitStep /\ FitSet(memory, j'.jobSize) = {}) =>
          /\ waitingQueue' = Append(waitingQueue, j')
          /\ memory' = memory
          /\ deallocatedJobs' = deallocatedJobs]_vars

\* A job was queued behind another although an occupied partition is large
\* enough for it.
C8_Witness ==
    /\ pc = "menu"
    /\ out # <<>> /\ out[1].kind = "queued"
    /\ Len(waitingQueue) >= 2
    /\ waitingQueue[Len(waitingQueue)] = j
    /\ \E k \in 1..Len(memory) : ~memory[k].isFree /\ memory[k].size >= j.jobSize

\* ===================================================================== C9
\* Job numbers present in a partition, the queue or the history.
NumbersInUse ==
    {memory[k].jobNumber : k \in {x \in 1..Len(memory) : ~memory[x].isFree}}
        \cup {waitingQueue[q].jobNumber : q \in 1..Len(waitingQueue)}
        \cup {deallocatedJobs[q].jobNumber : q \in 1..Len(deallocatedJobs)}

\* C9: the first number issued is 1, each "Add Job" takes the next number,
\* an invalid size consumes none, the counter never goes back, and every
\* number in use was issued before.
C9_JobNumbers ==
    /\ jobCounter = 1
    /\ [][(pc = "menu" /\ pc' = "jobsize") =>
             (j'.jobNumber = jobCounter /\ jobCounter' = jobCounter + 1)]_vars
    /\ [][(pc = "jobsize") =>
             (j'.jobNumber = j.jobNumber /\ jobCounter' = jobCounter)]_vars
    /\ [][jobCounter' = jobCounter \/ (pc = "menu" /\ pc' = "jobsize")]_vars
    /\ [](\A num \in NumbersInUse : 1 <= num /\ num < jobCounter)
    /\ [](pc = "jobsize" => j.jobNumber = jobCounter - 1 /\ j.jobNumber \notin NumbersInUse)

\* The third number was issued and an invalid size typed for it, with an
\* earlier job released and another waiting.
C9_Witness ==
    /\ pc = "jobsize"
    /\ j.jobNumber = 3
    /\ out = <<Msg("invalidSize", 0, 0)>>
    /\ deallocatedJobs # <<>>
    /\ waitingQueue # <<>>

\* ==================================================================== C10
\* C10: a job goes Submitted -> Placed or Waiting, Waiting -> Placed,
\* Placed -> Released and nowhere else: in every step that changes a
\* partition, the queue or the history, a placed job stays placed or becomes
\* released and never waits, a waiting job stays waiting or becomes placed,
\* and a released job stays released and never occupies or waits again.
C10_Lifecycle ==
    [][UNCHANGED <<memory, waitingQueue, deallocatedJobs>> \/
       \A num \in 1..jobCounter :
          /\ Placed(num) => (Placed(num)' \/ Released(num)') /\ ~Waiting(num)'
          /\ Waiting(num) => (Waiting(num)' \/ Placed(num)') /\ ~Released(num)'
          /\ Released(num) => Released(num)' /\ ~Placed(num)' /\ ~Waiting(num)'
          /\ (~Placed(num) /\ ~Waiting(num) /\ ~Released(num)) => ~Released(num)']_vars

\* One job has just gone Placed -> Released and a waiting one Waiting ->
\* Placed, after an earlier release.
C10_Witness ==
    /\ Len(out) = 2 /\ out[1].kind = "deallocated"
    /\ Released(out[1].job) /\ ~Placed(out[1].job) /\ ~Waiting(out[1].job)
    /\ Placed(out[2].job) /\ ~Waiting(out[2].job)
    /\ Len(deallocatedJobs) >= 2

\* ==================================================================== C11
\* C11: the pool the menu loop works on has at least one partition and every
\* partition size is positive (a set-up with no partition or with a size
\* <= 0 is refused).
C11_PoolValid ==
    pc \in {"menu", "jobsize", "done"} =>
        /\ Len(memory) >= 1
        /\ \A k \in 1..Len(memory) : memory[k].size > 0

\* ==================================================================== C12
\* Every job held by a partition, the queue or the history.
JobsInUse ==
    {Job(memory[k].jobNumber, memory[k].jobSize) :
        k \in {x \in 1..Len(memory) : ~memory[x].isFree}}
        \cup {waitingQueue[q] : q \in 1..Len(waitingQueue)}
        \cup {deallocatedJobs[q] : q \in 1..Len(deallocatedJobs)}

\* C12: a job size <= 0 is reported invalid and changes no partition, nor
\* the queue, nor the history, and the size is asked for again; the job that
\* allocateJob stores carries exactly the size typed, which is positive; so
\* every job in a partition, the queue or the history has a size > 0.
C12_InvalidSizeRejected ==
    /\ [][(pc = "jobsize" /\ j'.jobSize <= 0) =>
             /\ pc' = "jobsize"
             /\ out' = <<Msg("invalidSize", 0, 0)>>
             /\ UNCHANGED <<memory, waitingQueue, deallocatedJobs>>]_vars
    /\ [][SubmitStep =>
             /\ j'.jobSize > 0
             /\ \/ InMemory(memory', j')
                \/ /\ waitingQueue' # <<>>
                   /\ waitingQueue'[Len(waitingQueue')] = j']_vars
    /\ [](\A job \in JobsInUse : job.jobSize > 0)

\* An invalid size was just refused while one partition is occupied and
\* another is free.
C12_Witness ==
    /\ pc = "jobsize"
    /\ j.jobSize <= 0
    /\ out = <<Msg("invalidSize", 0, 0)>>
    /\ \E k \in 1..Len(memory) : memory[k].isFree
    /\ \E k \in 1..Len(memory) : ~memory[k].isFree

\* ==================================================================== C13
\* The most recent step printed the status report.
StatusShown == out # <<>> /\ out[1].kind = "status"

\* C13: showing the status changes no partition, nor the queue, the history
\* or the job counter, and a report shown right after a report is the same
\* report.
C13_ReportReadOnly ==
    [][(pc = "menu" /\ StatusShown') =>
          /\ UNCHANGED <<memory, waitingQueue, deallocatedJobs, jobCounter>>
          /\ StatusShown => out' = out]_vars

\* A report was shown with a job placed, a job waiting and a job released.
C13_Witness ==
    /\ StatusShown
    /\ out[1].waiting # <<>>
    /\ out[1].deallocated # <<>>
    /\ out[1].usedCount >= 1

\* ==================================================================== C14
\* Indices of the occupied partitions.
Occupied == {k \in 1..Len(memory) : ~memory[k].isFree}

\* Sum of size - jobSize over the partitions with index in S.
RECURSIVE WasteOver(_)
WasteOver(S) ==
    IF S = {} THEN 0
    ELSE LET k == CHOOSE x \in S : TRUE
         IN  (memory[k].size - memory[k].jobSize) + WasteOver(S \ {k})

C15_ScenarioShape ==
    \E a, b \in 1..Len(memory) :
        \E q \in 1..Len(waitingQueue) :
            /\ ~memory[a].isFree /\ memory[a].jobSize = memory[a].size
            /\ memory[b].isFree
            /\ memory[a].size < waitingQueue[q].jobSize
            /\ waitingQueue[q].jobSize <= memory[b].size

\* C15 (its premise): no run reaches a state of that shape.
C15_ScenarioUnreachable == ~C15_ScenarioShape

\* ==================================================================== C16
\* The step of a release that found its job.
ReleaseDone == ReleaseStep /\ out'[1].kind = "deallocated"

\* Positions in the released step's output of the sweep's message for the
\* job at queue position q.
SweepMsgs(q) ==
    {u \in 2..Len(out') : out'[u].job = waitingQueue[q].jobNumber}

\* Free partitions when the sweep reaches queue position q: those free
\* before the release, plus the one released, minus those the sweep gave to
\* jobs queued ahead of q.
FreeBefore(q) ==
    ({k \in 1..Len(memory) : memory[k].isFree} \cup {out'[1].part})
        \ {out'[u].part : u \in UNION {SweepMsgs(r) : r \in 1..(q - 1)}}

\* C16: in the sweep of a release every waiting job is tried once, in queue
\* order, against the pool as the sweep has left it so far: it is placed
\* (one message, in a partition, out of the queue) exactly if some partition
\* free at its turn is large enough, and stays waiting otherwise, whatever
\* happened to the jobs ahead of it.
C16_SweepSkipsAndContinues ==
    [][ReleaseDone =>
          /\ \A q \in 1..Len(waitingQueue) :
                IF \E k \in FreeBefore(q) : memory[k].size >= waitingQueue[q].jobSize
                THEN /\ Cardinality(SweepMsgs(q)) = 1
                     /\ InMemory(memory', waitingQueue[q])
                     /\ Places(waitingQueue', waitingQueue[q].jobNumber) = {}
                ELSE /\ SweepMsgs(q) = {}
                     /\ ~InMemory(memory', waitingQueue[q])
                     /\ Places(waitingQueue', waitingQueue[q].jobNumber) # {}
          /\ \A u \in 2..Len(out') :
                /\ out'[u].kind = "waitingAllocated"
                /\ \E q \in 1..Len(waitingQueue) : u \in SweepMsgs(q)
          /\ \A q, r \in 1..Len(waitingQueue) :
                \A u \in SweepMsgs(q) : \A v \in SweepMsgs(r) : q < r => u < v]_vars

\* A sweep skipped the job at the head of the queue, too large for the
\* released partition, and placed a job queued behind it.
C16_Witness ==
    /\ Len(out) >= 2 /\ out[1].kind = "deallocated"
    /\ waitingQueue # <<>>
    /\ waitingQueue[1].jobNumber < out[2].job
    /\ waitingQueue[1].jobSize > memory[out[1].part].size

\* ==================================================================== C17
\* C17: between commands no waiting job fits a free partition, and a further
\* sweep over the queue would change nothing.
C17_NoWaitingJobFits ==
    pc \in {"menu", "done"} =>
        /\ \A q \in 1..Len(waitingQueue) :
              \A k \in 1..Len(memory) :
                  memory[k].isFree => memory[k].size < waitingQueue[q].jobSize
        /\ tryAllocateWaiting(memory, waitingQueue).memory = memory
        /\ tryAllocateWaiting(memory, waitingQueue).waitingQueue = waitingQueue

\* A release just freed a partition that no waiting job fits: it stays free
\* and the queue stays as it was.
C17_Witness ==
    /\ pc = "menu"
    /\ out # <<>> /\ out[1].kind = "deallocated" /\ Len(out) = 1
    /\ memory[out[1].part].isFree
    /\ waitingQueue # <<>>

\* ==================================================================== C18
\* Queue positions of the jobs small enough for partition p.
FittingInto(p) ==
    {q \in 1..Len(waitingQueue) : waitingQueue[q].jobSize <= memory[p].size}

\* C18: a release that found its job places at most one waiting job; the one
\* it places is the earliest-queued job that fits the released partition and
\* goes into that partition; no other partition changes.
C18_ReleasePlacesAtMostOne ==
    [][ReleaseDone =>
          \A p \in Holders(memory, jobNumber') :
              /\ Len(out') <= 2
              /\ Len(waitingQueue') >= Len(waitingQueue) - 1
              /\ \A k \in 1..Len(memory) : k # p => memory'[k] = memory[k]
              /\ Len(out') = 1 =>
                    /\ memory'[p].isFree
                    /\ waitingQueue' = waitingQueue
              /\ Len(out') = 2 =>
                    /\ out'[2].part = memory[p].id
                    /\ \E q \in FittingInto(p) :
                          /\ \A r \in FittingInto(p) : q <= r
                          /\ out'[2].job = waitingQueue[q].jobNumber
                          /\ ~memory'[p].isFree
                          /\ memory'[p].jobNumber = waitingQueue[q].jobNumber
                          /\ memory'[p].jobSize = waitingQueue[q].jobSize]_vars

\* A release gave its partition to a waiting job while a job queued later,
\* which fits that partition as well, still waits.
C18_Witness ==
    /\ Len(out) = 2 /\ out[1].kind = "deallocated"
    /\ out[2].part = out[1].part
    /\ \E q \in 1..Len(waitingQueue) :
          /\ waitingQueue[q].jobNumber > out[2].job
          /\ waitingQueue[q].jobSize <= memory[out[1].part].size

\* ==================================================================== C19
\* Job numbers whose submission is complete: all numbers issued, except the
\* one whose size is still being asked for.
Accepted ==
    IF pc = "jobsize" THEN 1..(jobCounter - 2) ELSE 1..(jobCounter - 1)

\* How many jobs the partitions, the queue and the history hold in all.
JobEntries == Cardinality(Occupied) + Len(waitingQueue) + Len(deallocatedJobs)

\* C19: the job numbers found in the partitions, the queue and the history
\* are exactly the accepted ones, each found once (as many entries as
\* numbers); a job is stored with the size typed for it, and every stored
\* (number, size) pair is still stored, unchanged, after every step.
C19_NoJobLostOrDuplicated ==
    /\ [](NumbersInUse = Accepted /\ JobEntries = Cardinality(Accepted))
    /\ [][SubmitStep => j' \in JobsInUse']_vars
    /\ [][UNCHANGED <<memory, waitingQueue, deallocatedJobs>> \/
          JobsInUse \subseteq JobsInUse']_vars

\* Three jobs were accepted: one is placed, one waits, one is released.
C19_Witness ==
    /\ pc = "menu"
    /\ jobCounter = 4
    /\ \E a, b, c \in 1..3 : Placed(a) /\ Waiting(b) /\ Released(c)

\* ==================================================================== C20
\* Some partition of the pool is large enough for a job of this size.
FitsSome(size) == \E k \in 1..Len(memory) : memory[k].size >= size

\* Job number num waits and some partition is large enough for it.
WaitsFitting(num) ==
    \E q \in 1..Len(waitingQueue) :
        waitingQueue[q].jobNumber = num /\ FitsSome(waitingQueue[q].jobSize)

\* Job number num waits and no partition is large enough for it.
WaitsTooLarge(num) ==
    \E q \in 1..Len(waitingQueue) :
        waitingQueue[q].jobNumber = num /\ ~FitsSome(waitingQueue[q].jobSize)

\* Every placed job is eventually released.
EveryPlacedJobReleased ==
    \A num \in 1..MaxJobs : [](Placed(num) => <>Released(num))

\* C20: if every placed job is eventually released, every waiting job that
\* some partition is large enough for is eventually placed; a waiting job
\* larger than every partition stays in the queue in every step.
C20_NoStarvation ==
    /\ EveryPlacedJobReleased =>
          \A num \in 1..MaxJobs : [](WaitsFitting(num) => <>Placed(num))
    /\ [][\A num \in 1..MaxJobs : WaitsTooLarge(num) => WaitsTooLarge(num)']_vars

\* A release placed a waiting job while a job larger than every partition
\* is still in the queue.
C20_Witness ==
    /\ Len(out) = 2 /\ out[1].kind = "deallocated"
    /\ Placed(out[2].job)
    /\ \E q \in 1..Len(waitingQueue) : WaitsTooLarge(waitingQueue[q].jobNumber)

====
